---------------------------- MODULE Spec2Model ----------------------------
(***************************************************************************)
(* A model of datelib (src/datelib): the validated Date value type, its    *)
(* year/month/day shifters, the signed day difference and the day-of-week  *)
(* engine.                                                                  *)
(*                                                                         *)
(* A Date is a record [year, month, day].  A call's outcome is a record    *)
(* [exc, val]: exc = "none" when the call returned val, else the name of   *)
(* the exception it raised ("NoReturn" when the call never returns).       *)
(***************************************************************************)
EXTENDS Integers, Sequences, FiniteSets, TLC

VARIABLES
    objs,   \* the heap: the sequence of live Date instances, by identity
    call,   \* the last call made on the heap and its outcome
    self,   \* the receiver of the function under test
    other,  \* the second date (the date reached by the day-by-day walk)
    n,      \* the integer argument (days walked; years or months to shift)
    ret     \* the outcome(s) of the function(s) under test

vars == <<objs, call, self, other, n, ret>>

----------------------------------------------------------------------------
(* constants.py *)

NUM_DAYS_IN_WEEK == 7
NUM_MONTHS_IN_YEAR == 12
NUM_DAYS_IN_NON_LEAP_YEAR == 365
NUM_DAYS_IN_LEAP_YEAR == 366

DAY_NUMBER_TO_NAME_MAPPER ==
    <<"Monday", "Tuesday", "Wednesday", "Thursday", "Friday", "Saturday", "Sunday">>

DAY_COUNTS_IN_NON_LEAP_YEAR_BY_MONTH ==
    <<31, 28, 31, 30, 31, 30, 31, 31, 30, 31, 30, 31>>

DAY_COUNTS_IN_LEAP_YEAR_BY_MONTH ==
    <<31, 29, 31, 30, 31, 30, 31, 31, 30, 31, 30, 31>>

YEARS_HAVING_JANUARY_1ST_AS_SATURDAY ==
    <<28, 248, 524, 744, 980, 1228, 1448, 1684, 1916, 2000, 2084, 2276, 2400, 2676, 2952>>

----------------------------------------------------------------------------
(* Outcomes of calls *)

MkDate(y, m, d) == [year |-> y, month |-> m, day |-> d]

NoDate == MkDate(0, 0, 0)

Return(v) == [exc |-> "none", val |-> v]

RaiseDate(e) == [exc |-> e, val |-> NoDate]

RaiseInt(e) == [exc |-> e, val |-> 0]

----------------------------------------------------------------------------
(* utils.py *)

is_leap_year(year) ==
    IF year % 4 # 0 THEN FALSE
    ELSE IF year % 100 # 0 THEN TRUE
    ELSE year % 400 = 0

get_days_count_in_year(year) ==
    IF is_leap_year(year) THEN NUM_DAYS_IN_LEAP_YEAR ELSE NUM_DAYS_IN_NON_LEAP_YEAR

\* sum(table[lo - 1 : hi]) for 1 <= lo, hi <= 12 (an empty slice sums to 0)
RECURSIVE SumSlice(_, _, _)
SumSlice(table, lo, hi) ==
    IF lo > hi THEN 0 ELSE table[lo] + SumSlice(table, lo + 1, hi)

get_days_count_between_months(year, start_month, end_month) ==
    IF ~((1 <= start_month /\ start_month <= 12) /\ (1 <= end_month /\ end_month <= 12))
    THEN RaiseInt("AssertionError")
    ELSE IF ~(start_month <= end_month)
    THEN RaiseInt("AssertionError")
    ELSE LET includes_february == 2 \in start_month..end_month
             _is_leap_year == IF includes_february THEN is_leap_year(year) ELSE FALSE
         IN  IF _is_leap_year
             THEN Return(SumSlice(DAY_COUNTS_IN_LEAP_YEAR_BY_MONTH, start_month, end_month))
             ELSE Return(SumSlice(DAY_COUNTS_IN_NON_LEAP_YEAR_BY_MONTH, start_month, end_month))

get_days_in_month(year, month) ==
    get_days_count_between_months(year, month, month)

get_days_remaining_in_month(year, month, day) ==
    LET r == get_days_in_month(year, month)
    IN  IF r.exc # "none" THEN r ELSE Return(r.val - day)

\* The mapper of one year, as a sequence indexed by month number.
get_days_per_month_mapper(year) ==
    <<31, IF is_leap_year(year) THEN 29 ELSE 28, 31, 30, 31, 30, 31, 31, 30, 31, 30, 31>>

\* The mapper of the years first_year .. last_year (a range(...) of years), read
\* the only way the callers read it: mapper.get(year, {}).get(month, None).
\* is_none tells that the lookup gave None; days is the day count otherwise.
get_days_per_month_mapper_for_multiple_years(first_year, last_year, year, month) ==
    IF year \in first_year..last_year /\ month \in 1..12
    THEN LET BASE_MAPPER == <<31, 28, 31, 30, 31, 30, 31, 31, 30, 31, 30, 31>>
             base_mapper_copy == IF is_leap_year(year)
                                 THEN [BASE_MAPPER EXCEPT ![2] = 29]
                                 ELSE BASE_MAPPER
         IN  [is_none |-> FALSE, days |-> base_mapper_copy[month]]
    ELSE [is_none |-> TRUE, days |-> 0]

RECURSIVE argmin_from(_, _, _, _)
argmin_from(iterable, idx, low_idx, low_item) ==
    IF idx > Len(iterable) THEN low_idx
    ELSE IF iterable[idx] < low_item
         THEN argmin_from(iterable, idx + 1, idx, iterable[idx])
         ELSE argmin_from(iterable, idx + 1, low_idx, low_item)

\* Index (1-based here) of the lowest element, the first one on a tie.
argmin(iterable) == argmin_from(iterable, 2, 1, iterable[1])

abs(x) == IF x < 0 THEN -x ELSE x

----------------------------------------------------------------------------
(* dates.py: validation, comparisons, properties *)

\* _validate_date with the year test off by one: year 0 passes.
_validate_date_year_0(date_obj) ==
    IF date_obj.year < 0 THEN "InvalidDateError"
    ELSE IF ~(1 <= date_obj.month /\ date_obj.month <= 12) THEN "InvalidDateError"
    ELSE IF date_obj.month \in {1, 3, 5, 7, 8, 10, 12}
            /\ ~(1 <= date_obj.day /\ date_obj.day <= 31) THEN "InvalidDateError"
    ELSE IF date_obj.month \in {4, 6, 9, 11}
            /\ ~(1 <= date_obj.day /\ date_obj.day <= 30) THEN "InvalidDateError"
    ELSE IF date_obj.month \in {2}
            /\ LET _is_leap_year == is_leap_year(date_obj.year)
               IN  \/ (_is_leap_year /\ ~(1 <= date_obj.day /\ date_obj.day <= 29))
                   \/ (~_is_leap_year /\ ~(1 <= date_obj.day /\ date_obj.day <= 28))
         THEN "InvalidDateError"
    ELSE "none"

\* Date._validate_date on integer fields: the exception raised, or "none".
_validate_date(date_obj) ==
    IF date_obj.year <= 0 THEN "InvalidDateError"
    ELSE IF ~(1 <= date_obj.month /\ date_obj.month <= 12) THEN "InvalidDateError"
    ELSE IF date_obj.month \in {1, 3, 5, 7, 8, 10, 12}
            /\ ~(1 <= date_obj.day /\ date_obj.day <= 31) THEN "InvalidDateError"
    ELSE IF date_obj.month \in {4, 6, 9, 11}
            /\ ~(1 <= date_obj.day /\ date_obj.day <= 30) THEN "InvalidDateError"
    ELSE IF date_obj.month \in {2}
            /\ LET _is_leap_year == is_leap_year(date_obj.year)
               IN  \/ (_is_leap_year /\ ~(1 <= date_obj.day /\ date_obj.day <= 29))
                   \/ (~_is_leap_year /\ ~(1 <= date_obj.day /\ date_obj.day <= 28))
         THEN "InvalidDateError"
    ELSE "none"

\* Date(year=, month=, day=): the new instance's value, or the exception.
Date(year, month, day) ==
    LET exc == _validate_date(MkDate(year, month, day))
    IN  IF exc = "none" THEN Return(MkDate(year, month, day)) ELSE RaiseDate(exc)

__eq__(a, b) == a.year = b.year /\ a.month = b.month /\ a.day = b.day

__gt__(a, b) ==
    \/ a.year > b.year
    \/ (a.year = b.year /\ (a.month > b.month \/ a.day > b.day))

__lt__(a, b) ==
    \/ a.year < b.year
    \/ (a.year = b.year /\ (a.month < b.month \/ a.day < b.day))

\* __ge__ as the chronological order: __gt__ or __eq__.
__ge__chronological(a, b) ==
    \/ a.year > b.year
    \/ (a.year = b.year /\ (a.month > b.month \/ a.day > b.day))
    \/ (a.year = b.year /\ a.month = b.month /\ a.day = b.day)

__ge__(a, b) == a.year >= b.year /\ a.month >= b.month /\ a.day >= b.day

__le__(a, b) == a.year <= b.year /\ a.month <= b.month /\ a.day <= b.day

\* Date.copy
copy(d) == Date(d.year, d.month, d.day)

\* days_since_start_of_year counting the months through the current one.
days_since_start_of_year_whole_month(d) ==
    IF d.month = 1 THEN Return(d.day)
    ELSE LET r == get_days_count_between_months(d.year, 1, d.month)
         IN  IF r.exc # "none" THEN r ELSE Return(r.val + d.day)

days_since_start_of_year(d) ==
    IF d.month = 1 THEN Return(d.day)
    ELSE LET r == get_days_count_between_months(d.year, 1, d.month - 1)
         IN  IF r.exc # "none" THEN r ELSE Return(r.val + d.day)

\* The loop of days_till_end_of_year over the months month_number, ..., 1
\* (the reversed mapper), with num_days summed so far.
RECURSIVE days_till_end_of_year_loop(_, _, _)
days_till_end_of_year_loop(d, month_number, num_days) ==
    IF month_number < 1 THEN num_days
    ELSE LET num_days_in_month == get_days_per_month_mapper(d.year)[month_number]
         IN  IF month_number = d.month
             THEN num_days + (num_days_in_month - d.day)
             ELSE days_till_end_of_year_loop(d, month_number - 1, num_days + num_days_in_month)

\* days_till_end_of_year counting the current date as well.
days_till_end_of_year_inclusive(d) == days_till_end_of_year_loop(d, 12, 1)

days_till_end_of_year(d) == days_till_end_of_year_loop(d, 12, 0)

_increment_year_and_month(year, month) ==
    IF month = 12 THEN <<year + 1, 1>> ELSE <<year, month + 1>>

\* _decrement_year_and_month wrapping to December without leaving the year.
_decrement_year_and_month_same_year(year, month) ==
    IF month = 1 THEN <<year, 12>> ELSE <<year, month - 1>>

_decrement_year_and_month(year, month) ==
    IF month = 1 THEN <<year - 1, 12>> ELSE <<year, month - 1>>

----------------------------------------------------------------------------
(* dates.py: the year, month and day shifters *)

\* _subtract_years rolling forward to March 1, as _add_years does.
_subtract_years_rolls_forward(d, years) ==
    IF ~(years >= 0) THEN RaiseDate("AssertionError")
    ELSE IF d.month = 2 /\ d.day = 29
         THEN IF is_leap_year(d.year - years)
              THEN Date(d.year - years, 2, 29)
              ELSE Date(d.year - years, 3, 1)
         ELSE Date(d.year - years, d.month, d.day)

_subtract_years(d, years) ==
    IF ~(years >= 0) THEN RaiseDate("AssertionError")
    ELSE IF d.month = 2 /\ d.day = 29
         THEN IF is_leap_year(d.year - years)
              THEN Date(d.year - years, 2, 29)
              ELSE Date(d.year - years, 2, 28)
         ELSE Date(d.year - years, d.month, d.day)

_add_years(d, years) ==
    IF ~(years >= 0) THEN RaiseDate("AssertionError")
    ELSE IF d.month = 2 /\ d.day = 29
         THEN IF is_leap_year(d.year + years)
              THEN Date(d.year + years, 2, 29)
              ELSE Date(d.year + years, 3, 1)
         ELSE Date(d.year + years, d.month, d.day)

_subtract_months(d, months) ==
    IF ~(months >= 0) THEN RaiseDate("AssertionError")
    ELSE LET years == months \div NUM_MONTHS_IN_YEAR
             months_ == months % NUM_MONTHS_IN_YEAR
             r == _subtract_years(d, years)
             date_new == r.val
             month == date_new.month - months_
         IN  IF r.exc # "none" THEN r
             ELSE IF month <= 0
                  THEN Date(date_new.year - 1, month + 12, date_new.day)  \* _mapper[month]
                  ELSE Date(date_new.year, month, date_new.day)

\* _add_months carrying into the next year already when the month sum is 12.
_add_months_carry_at_12(d, months) ==
    IF ~(months >= 0) THEN RaiseDate("AssertionError")
    ELSE LET years == months \div NUM_MONTHS_IN_YEAR
             months_ == months % NUM_MONTHS_IN_YEAR
             r == _add_years(d, years)
             date_new == r.val
             month0 == (date_new.month + months_) % NUM_MONTHS_IN_YEAR
             month == IF month0 = 0 THEN NUM_MONTHS_IN_YEAR ELSE month0
             year == IF date_new.month + months_ >= NUM_MONTHS_IN_YEAR
                     THEN date_new.year + 1 ELSE date_new.year
         IN  IF r.exc # "none" THEN r ELSE Date(year, month, date_new.day)

_add_months(d, months) ==
    IF ~(months >= 0) THEN RaiseDate("AssertionError")
    ELSE LET years == months \div NUM_MONTHS_IN_YEAR
             months_ == months % NUM_MONTHS_IN_YEAR
             r == _add_years(d, years)
             date_new == r.val
             month0 == (date_new.month + months_) % NUM_MONTHS_IN_YEAR
             month == IF month0 = 0 THEN NUM_MONTHS_IN_YEAR ELSE month0
             year == IF date_new.month + months_ > NUM_MONTHS_IN_YEAR
                     THEN date_new.year + 1 ELSE date_new.year
         IN  IF r.exc # "none" THEN r ELSE Date(year, month, date_new.day)

\* The `while True` of _add_days: the mapper holds first_year .. last_year.
RECURSIVE _add_days_loop(_, _, _, _, _)
_add_days_loop(first_year, last_year, current_year, current_month, days) ==
    LET total_days_in_month ==
            get_days_per_month_mapper_for_multiple_years(
                first_year, last_year, current_year, current_month)
        next == _increment_year_and_month(current_year, current_month)
    IN  IF total_days_in_month.is_none THEN RaiseDate("TypeError")  \* days > None
        ELSE IF days > total_days_in_month.days
             THEN _add_days_loop(first_year, last_year, next[1], next[2],
                                 days - total_days_in_month.days)
             ELSE Date(current_year, current_month, days)

_add_days(d, days) ==
    IF ~(days >= 0) THEN RaiseDate("AssertionError")
    ELSE LET first_year == d.year
             last_year == d.year + (days \div 366) + 2 - 1     \* range() excludes its end
             total_days_in_month ==
                 get_days_per_month_mapper_for_multiple_years(
                     first_year, last_year, d.year, d.month)
             days_remaining_in_month == total_days_in_month.days - d.day
             next == _increment_year_and_month(d.year, d.month)
         IN  IF total_days_in_month.is_none THEN RaiseDate("TypeError")  \* None - self.day
             ELSE IF days <= days_remaining_in_month
                  THEN Date(d.year, d.month, d.day + days)
                  ELSE _add_days_loop(first_year, last_year, next[1], next[2],
                                      days - days_remaining_in_month)

\* The `while True` of _subtract_days.  With days = total_days_in_month neither
\* branch is taken and nothing changes: the loop never ends ("NoReturn").
RECURSIVE _subtract_days_loop(_, _, _, _, _)
_subtract_days_loop(first_year, last_year, current_year, current_month, days) ==
    LET total_days_in_month ==
            get_days_per_month_mapper_for_multiple_years(
                first_year, last_year, current_year, current_month)
        prev == _decrement_year_and_month(current_year, current_month)
    IN  IF days = 0
        THEN (IF total_days_in_month.is_none
              THEN RaiseDate("InvalidDateError")   \* Date(day=None): not an int
              ELSE Date(current_year, current_month, total_days_in_month.days))
        ELSE IF total_days_in_month.is_none THEN RaiseDate("TypeError")  \* days > None
        ELSE IF days > total_days_in_month.days
             THEN _subtract_days_loop(first_year, last_year, prev[1], prev[2],
                                      days - total_days_in_month.days)
        ELSE IF days < total_days_in_month.days
             THEN Date(current_year, current_month, total_days_in_month.days - days)
        ELSE RaiseDate("NoReturn")

_subtract_days(d, days) ==
    IF ~(days >= 0) THEN RaiseDate("AssertionError")
    ELSE LET first_year == d.year - (days \div 366) - 1
             last_year == d.year + 1 - 1                       \* range() excludes its end
             prev == _decrement_year_and_month(d.year, d.month)
         IN  IF days < d.day
             THEN Date(d.year, d.month, d.day - days)
             ELSE _subtract_days_loop(first_year, last_year, prev[1], prev[2], days - d.day)

\* Date.add: years first, then months, then days.
add(d, years, months, days) ==
    LET r1 == _add_years(d, years)
        r2 == IF r1.exc # "none" THEN r1 ELSE _add_months(r1.val, months)
    IN  IF r2.exc # "none" THEN r2 ELSE _add_days(r2.val, days)

\* Date.subtract: years first, then months, then days.
subtract(d, years, months, days) ==
    LET r1 == _subtract_years(d, years)
        r2 == IF r1.exc # "none" THEN r1 ELSE _subtract_months(r1.val, months)
    IN  IF r2.exc # "none" THEN r2 ELSE _subtract_days(r2.val, days)

----------------------------------------------------------------------------
(* dates.py: difference *)

\* receiver is the date whose method is called: its year is the one looked up.
_difference_between_dates_in_same_year(receiver, small, big) ==
    IF ~__lt__(small, big) THEN RaiseInt("AssertionError")
    ELSE IF ~(small.year = big.year) THEN RaiseInt("AssertionError")
    ELSE IF small.month = big.month THEN Return(big.day - small.day)
    ELSE LET rem == get_days_remaining_in_month(receiver.year, small.month, small.day)
         IN  IF rem.exc # "none" THEN rem
             ELSE IF small.month + 1 = big.month THEN Return(rem.val + big.day)
             ELSE LET between == get_days_count_between_months(
                                     receiver.year, small.month + 1, big.month - 1)
                  IN  IF between.exc # "none" THEN between
                      ELSE Return(rem.val + between.val + big.day)

\* [small.year, small.year + 1, ..., big.year] as the pair of its ends.
_get_years_between_dates(small, big) ==
    IF small.year = big.year THEN <<small.year, small.year>> ELSE <<small.year, big.year>>

RECURSIVE SumDaysInYears(_, _)
SumDaysInYears(first_year, last_year) ==
    IF first_year > last_year THEN 0
    ELSE get_days_count_in_year(first_year) + SumDaysInYears(first_year + 1, last_year)

_difference_between_dates_in_different_years(small, big) ==
    IF ~__lt__(small, big) THEN RaiseInt("AssertionError")
    ELSE IF ~(small.year # big.year) THEN RaiseInt("AssertionError")
    ELSE LET years == _get_years_between_dates(small, big)
             \* _, *years_in_between, _ = years
             since == days_since_start_of_year(big)
         IN  IF since.exc # "none" THEN since
             ELSE Return(days_till_end_of_year(small)
                         + SumDaysInYears(years[1] + 1, years[2] - 1)
                         + since.val)

difference(d, o) ==
    IF __eq__(d, o) THEN Return(0)
    ELSE LET self_lt_other == __lt__(d, o)
             c1 == copy(d)
             c2 == copy(o)
             small == IF self_lt_other THEN c1.val ELSE c2.val
             big == IF self_lt_other THEN c2.val ELSE c1.val
             days_difference_abs ==
                 IF small.year = big.year
                 THEN _difference_between_dates_in_same_year(d, small, big)
                 ELSE _difference_between_dates_in_different_years(small, big)
         IN  IF c1.exc # "none" THEN RaiseInt(c1.exc)
             ELSE IF c2.exc # "none" THEN RaiseInt(c2.exc)
             ELSE IF days_difference_abs.exc # "none" THEN days_difference_abs
             ELSE IF self_lt_other
                  THEN Return(days_difference_abs.val * (-1))
                  ELSE Return(days_difference_abs.val)

abs_difference(d, o) ==
    LET r == difference(d, o)
    IN  IF r.exc # "none" THEN r ELSE Return(abs(r.val))

----------------------------------------------------------------------------
(* day_of_week.py *)

_get_reference_date_details(year) ==
    LET year_differences ==
            [i \in 1..Len(YEARS_HAVING_JANUARY_1ST_AS_SATURDAY) |->
                abs(year - YEARS_HAVING_JANUARY_1ST_AS_SATURDAY[i])]
        reference_year == YEARS_HAVING_JANUARY_1ST_AS_SATURDAY[argmin(year_differences)]
    IN  IF ~is_leap_year(reference_year) THEN RaiseInt("AssertionError")
        ELSE Return(<<reference_year, 6>>)

\* for year_ in range(from, stop, 4): counts the leap years year_ # excluded,
\* stop being exclusive.
RECURSIVE CountLeapAhead(_, _, _)
CountLeapAhead(year_, stop, excluded) ==
    IF year_ >= stop THEN 0
    ELSE (IF is_leap_year(year_) /\ year_ # excluded THEN 1 ELSE 0)
         + CountLeapAhead(year_ + 4, stop, excluded)

\* for year_ in range(from, stop, -4).
RECURSIVE CountLeapBehind(_, _, _)
CountLeapBehind(year_, stop, excluded) ==
    IF year_ <= stop THEN 0
    ELSE (IF is_leap_year(year_) /\ year_ # excluded THEN 1 ELSE 0)
         + CountLeapBehind(year_ - 4, stop, excluded)

_get_day_of_week_on_january_1st(year) ==
    LET ref == _get_reference_date_details(year)
        reference_year == ref.val[1]
        reference_dow_number == ref.val[2]
        is_year_ahead_of_reference == year > reference_year
        num_years_between == abs(year - reference_year)
        num_days_away ==
            IF is_year_ahead_of_reference
            THEN (num_years_between + CountLeapAhead(reference_year, year + 1, year))
                     % NUM_DAYS_IN_WEEK
            ELSE NUM_DAYS_IN_WEEK
                 - ((num_years_between + CountLeapBehind(reference_year, year - 1, reference_year))
                        % NUM_DAYS_IN_WEEK)
        dow_number == (reference_dow_number + num_days_away) % NUM_DAYS_IN_WEEK
    IN  IF ref.exc # "none" THEN ref
        ELSE IF year = reference_year THEN Return(reference_dow_number)
        ELSE Return(IF dow_number = 0 THEN NUM_DAYS_IN_WEEK ELSE dow_number)

\* get_day_of_week shifting February of a leap year too (month >= 2).
get_day_of_week_shifts_february(year, month, day) ==
    LET jan1st == _get_day_of_week_on_january_1st(year)
        _MONTH_TO_FIRST_SAME_DAY_MAPPER == <<1, 5, 5, 2, 7, 4, 2, 6, 3, 1, 5, 3>>
        num_days_away == (day - _MONTH_TO_FIRST_SAME_DAY_MAPPER[month]) % NUM_DAYS_IN_WEEK
        days_difference == jan1st.val + num_days_away
                           + (IF is_leap_year(year) /\ month >= 2 THEN 1 ELSE 0)
        dow_number == days_difference % NUM_DAYS_IN_WEEK
    IN  IF jan1st.exc # "none" THEN [exc |-> jan1st.exc, val |-> ""]
        ELSE Return(DAY_NUMBER_TO_NAME_MAPPER[IF dow_number = 0 THEN NUM_DAYS_IN_WEEK
                                              ELSE dow_number])

get_day_of_week(year, month, day) ==
    LET jan1st == _get_day_of_week_on_january_1st(year)
        _MONTH_TO_FIRST_SAME_DAY_MAPPER == <<1, 5, 5, 2, 7, 4, 2, 6, 3, 1, 5, 3>>
        num_days_away == (day - _MONTH_TO_FIRST_SAME_DAY_MAPPER[month]) % NUM_DAYS_IN_WEEK
        days_difference == jan1st.val + num_days_away
                           + (IF is_leap_year(year) /\ month > 2 THEN 1 ELSE 0)
        dow_number == days_difference % NUM_DAYS_IN_WEEK
    IN  IF jan1st.exc # "none" THEN [exc |-> jan1st.exc, val |-> ""]
        ELSE Return(DAY_NUMBER_TO_NAME_MAPPER[IF dow_number = 0 THEN NUM_DAYS_IN_WEEK
                                              ELSE dow_number])

\* Date.day_of_week
day_of_week(d) == get_day_of_week(d.year, d.month, d.day)

----------------------------------------------------------------------------
(* The calendar of reference: one day at a time, written without the tables  *)
(* and helpers of the library.                                               *)

RefLeap(y) == (y % 4 = 0 /\ y % 100 # 0) \/ y % 400 = 0

RefDaysInMonth(y, m) ==
    IF m = 2 THEN (IF RefLeap(y) THEN 29 ELSE 28)
    ELSE IF m \in {4, 6, 9, 11} THEN 30
    ELSE 31

RefValid(y, m, d) ==
    y > 0 /\ 1 <= m /\ m <= 12 /\ 1 <= d /\ d <= RefDaysInMonth(y, m)

OneDayLater(d) ==
    IF d.day < RefDaysInMonth(d.year, d.month) THEN MkDate(d.year, d.month, d.day + 1)
    ELSE IF d.month < 12 THEN MkDate(d.year, d.month + 1, 1)
    ELSE MkDate(d.year + 1, 1, 1)

OneDayEarlier(d) ==
    IF d.day > 1 THEN MkDate(d.year, d.month, d.day - 1)
    ELSE IF d.month > 1 THEN MkDate(d.year, d.month - 1, RefDaysInMonth(d.year, d.month - 1))
    ELSE MkDate(d.year - 1, 12, 31)

RefDatesOfYears(years) ==
    {dd \in {MkDate(y, m, d) : y \in years, m \in 1..12, d \in 1..31} :
        RefValid(dd.year, dd.month, dd.day)}

\* The call record before any call is made.
NoCall ==
    [op |-> "none", this |-> 0, other |-> 0, exc |-> "none", result |-> 0, value |-> 0]

----------------------------------------------------------------------------
(* SpecWalk: difference and add(days) against a day-by-day walk.  self is    *)
(* drawn among the first, middle and last days of the months of the first    *)
(* years; other is self moved n times by one day; every step calls           *)
(* difference both ways, add(days=n) on self and subtract(days=n) on other.  *)

WalkStartYears == 3
MaxWalkDays == 1500

WalkStarts ==
    {d \in RefDatesOfYears(2014..(2014 + WalkStartYears - 1)) :
        d.day \in {1, 15, 28, 29, 30, 31}}

WalkCalls(d, o, k) ==
    [difference |-> difference(o, d),
     reverse    |-> difference(d, o),
     add        |-> add(d, 0, 0, k),
     subtract   |-> subtract(o, 0, 0, k)]

InitWalk ==
    /\ objs = <<>>
    /\ call = NoCall
    /\ self \in WalkStarts
    /\ other = self
    /\ n = 0
    /\ ret = WalkCalls(self, self, 0)

WalkOneDay ==
    /\ n < MaxWalkDays
    /\ other' = OneDayLater(other)
    /\ n' = n + 1
    /\ ret' = WalkCalls(self, other', n')
    /\ UNCHANGED <<objs, call, self>>

NextWalk == WalkOneDay

SpecWalk == InitWalk /\ [][NextWalk]_vars

----------------------------------------------------------------------------
(* SpecDow: day_of_week against the count of days from the anchor            *)
(* Date(2000, 1, 1), a Saturday.  The walk goes from one January 1st to the  *)
(* next or the previous one, a whole year of days at a time; from the first  *)
(* of a month to the first of the next, a whole month of days at a time;     *)
(* and, in the years around the anchor, through each month one day at a      *)
(* time.  n is the signed count of days from the anchor to other.            *)

MaxDowYears == 2000
MaxDowDayYears == 400

DowAnchor == MkDate(2000, 1, 1)

RefDaysInYear(y) == IF RefLeap(y) THEN 366 ELSE 365

\* The weekday k days after (k < 0: before) the anchor's Saturday.
RefWeekday(k) ==
    <<"Saturday", "Sunday", "Monday", "Tuesday", "Wednesday", "Thursday", "Friday">>[(k % 7) + 1]

InitDow ==
    /\ objs = <<>>
    /\ call = NoCall
    /\ self = DowAnchor
    /\ other = DowAnchor
    /\ n = 0
    /\ ret = day_of_week(DowAnchor)

DowOneYearLater ==
    /\ other.month = 1 /\ other.day = 1
    /\ other.year >= DowAnchor.year
    /\ other.year - DowAnchor.year < MaxDowYears
    /\ other' = MkDate(other.year + 1, 1, 1)
    /\ n' = n + RefDaysInYear(other.year)
    /\ ret' = day_of_week(other')
    /\ UNCHANGED <<objs, call, self>>

DowOneYearEarlier ==
    /\ other.month = 1 /\ other.day = 1
    /\ other.year <= DowAnchor.year
    /\ DowAnchor.year - other.year < MaxDowYears
    /\ other.year - 1 >= 1                  \* no Date before year 1
    /\ other' = MkDate(other.year - 1, 1, 1)
    /\ n' = n - RefDaysInYear(other.year - 1)
    /\ ret' = day_of_week(other')
    /\ UNCHANGED <<objs, call, self>>

DowOneMonthLater ==
    /\ other.day = 1
    /\ other.month < 12
    /\ other' = MkDate(other.year, other.month + 1, 1)
    /\ n' = n + RefDaysInMonth(other.year, other.month)
    /\ ret' = day_of_week(other')
    /\ UNCHANGED <<objs, call, self>>

DowOneDayLater ==
    /\ abs(other.year - DowAnchor.year) <= MaxDowDayYears
    /\ other.day < RefDaysInMonth(other.year, other.month)
    /\ other' = OneDayLater(other)
    /\ n' = n + 1
    /\ ret' = day_of_week(other')
    /\ UNCHANGED <<objs, call, self>>

NextDow == DowOneYearLater \/ DowOneYearEarlier \/ DowOneMonthLater \/ DowOneDayLater

SpecDow == InitDow /\ [][NextDow]_vars

----------------------------------------------------------------------------
(* SpecValidate: the constructor on integer triples, valid and not.          *)

MaxOutOfRange == 2

ValidateYears ==
    ((1 - MaxOutOfRange)..8) \cup {100, 200, 400, 1900, 2000, 2019, 2020, 2100}

ValidateMonths == (1 - MaxOutOfRange)..(12 + MaxOutOfRange)

ValidateDays == (1 - MaxOutOfRange)..(31 + MaxOutOfRange)

Pending == [exc |-> "pending", val |-> NoDate]

InitValidate ==
    /\ objs = <<>>
    /\ call = NoCall
    /\ self \in {MkDate(y, m, d) : y \in ValidateYears, m \in ValidateMonths, d \in ValidateDays}
    /\ other = NoDate
    /\ n = 0
    /\ ret = Pending

Construct ==
    /\ ret = Pending
    /\ ret' = Date(self.year, self.month, self.day)
    /\ UNCHANGED <<objs, call, self, other, n>>

NextValidate == Construct

SpecValidate == InitValidate /\ [][NextValidate]_vars

----------------------------------------------------------------------------
(* SpecShift: the year shift and the month shift.  self is drawn among the   *)
(* dates of a few years, n among the counts 0 .. MaxShift; one call is made. *)

MaxShift == 30

ShiftYears == {1, 4, 1896, 1900, 2000, 2020}

NoShift == [op |-> "none", mid |-> Pending, out |-> Pending]

InitShift ==
    /\ objs = <<>>
    /\ call = NoCall
    /\ self \in RefDatesOfYears(ShiftYears)
    /\ other = NoDate
    /\ n \in 0..MaxShift
    /\ ret = NoShift

\* self.add(years=n)
CallAddYears ==
    /\ ret = NoShift
    /\ ret' = [op |-> "add_years", mid |-> Pending, out |-> add(self, n, 0, 0)]
    /\ UNCHANGED <<objs, call, self, other, n>>

\* self.subtract(years=n)
CallSubtractYears ==
    /\ ret = NoShift
    /\ ret' = [op |-> "subtract_years", mid |-> Pending, out |-> subtract(self, n, 0, 0)]
    /\ UNCHANGED <<objs, call, self, other, n>>

\* self.add(months=n).subtract(months=n)
CallAddSubtractMonths ==
    /\ ret = NoShift
    /\ LET mid == add(self, 0, n, 0)
       IN  ret' = [op |-> "add_subtract_months",
                   mid |-> mid,
                   out |-> IF mid.exc # "none" THEN mid ELSE subtract(mid.val, 0, n, 0)]
    /\ UNCHANGED <<objs, call, self, other, n>>

\* self.add(months=n)
CallAddMonths ==
    /\ ret = NoShift
    /\ ret' = [op |-> "add_months", mid |-> Pending, out |-> add(self, 0, n, 0)]
    /\ UNCHANGED <<objs, call, self, other, n>>

\* self.subtract(months=n)
CallSubtractMonths ==
    /\ ret = NoShift
    /\ ret' = [op |-> "subtract_months", mid |-> Pending, out |-> subtract(self, 0, n, 0)]
    /\ UNCHANGED <<objs, call, self, other, n>>

NextShift ==
    \/ CallAddYears
    \/ CallSubtractYears
    \/ CallAddSubtractMonths
    \/ CallAddMonths
    \/ CallSubtractMonths

SpecShift == InitShift /\ [][NextShift]_vars

----------------------------------------------------------------------------
(* Spec: Date instances on a heap.  An instance is the index of its value in *)
(* objs; a method returning a Date allocates a new index.  Each action is a  *)
(* whole call: it gives the heap after the call and the call's record        *)
(* [op, this, other, exc, result, value]: result is the instance returned    *)
(* (0: none), value the integer returned.                                    *)

MaxObjects == 2

NewYears == {2020}
NewMonths == {2, 12}
NewDays == {29, 31}
SetterYears == {2021}
SetterMonths == {2}
SetterDays == {31}
\* <<years, months, days>>
ShiftArgs == {<<0, 0, 0>>, <<1, 0, 0>>, <<0, 1, 0>>, <<0, 0, 1>>}

Called(op, this, o, exc, result, value) ==
    [op |-> op, this |-> this, other |-> o, exc |-> exc, result |-> result, value |-> value]

\* A call that hands out the Date of outcome r as a new instance.
Allocated(heap, op, this, r) ==
    IF r.exc = "none"
    THEN [objs |-> Append(heap, r.val),
          call |-> Called(op, this, 0, "none", Len(heap) + 1, 0)]
    ELSE [objs |-> heap, call |-> Called(op, this, 0, r.exc, 0, 0)]

\* Date.__init__: the fields are bound, then validated; a raise leaves no instance.
__init__(heap, year, month, day) ==
    Allocated(heap, "Date", 0, Date(year, month, day))

\* The setters: the field is assigned, then the whole date is validated.
year_setter(heap, this, year) ==
    LET after == [heap EXCEPT ![this].year = year]
    IN  [objs |-> after,
         call |-> Called("year.setter", this, 0, _validate_date(after[this]), 0, 0)]

month_setter(heap, this, month) ==
    LET after == [heap EXCEPT ![this].month = month]
    IN  [objs |-> after,
         call |-> Called("month.setter", this, 0, _validate_date(after[this]), 0, 0)]

day_setter(heap, this, day) ==
    LET after == [heap EXCEPT ![this].day = day]
    IN  [objs |-> after,
         call |-> Called("day.setter", this, 0, _validate_date(after[this]), 0, 0)]

heap_copy(heap, this) == Allocated(heap, "copy", this, copy(heap[this]))

\* add moving the receiver itself through its setters and returning it.
heap_add_in_place(heap, this, years, months, days) ==
    LET r == add(heap[this], years, months, days)
    IN  IF r.exc = "none"
        THEN [objs |-> [heap EXCEPT ![this] = r.val],
              call |-> Called("add", this, 0, "none", this, 0)]
        ELSE [objs |-> heap, call |-> Called("add", this, 0, r.exc, 0, 0)]

heap_add(heap, this, years, months, days) ==
    Allocated(heap, "add", this, add(heap[this], years, months, days))

heap_subtract(heap, this, years, months, days) ==
    Allocated(heap, "subtract", this, subtract(heap[this], years, months, days))

\* difference works on copies of self and other, dropped when it returns.
heap_difference(heap, this, o) ==
    LET r == difference(heap[this], heap[o])
    IN  [objs |-> heap, call |-> Called("difference", this, o, r.exc, 0, r.val)]

heap_abs_difference(heap, this, o) ==
    LET r == abs_difference(heap[this], heap[o])
    IN  [objs |-> heap, call |-> Called("abs_difference", this, o, r.exc, 0, r.val)]

Idle == self = NoDate /\ other = NoDate /\ n = 0 /\ ret = Pending

Init ==
    /\ objs = <<>>
    /\ call = NoCall
    /\ Idle

\* The program goes on after a call unless the call never returns.
Running == call.exc # "NoReturn"

Does(after) ==
    /\ objs' = after.objs
    /\ call' = after.call
    /\ UNCHANGED <<self, other, n, ret>>

New ==
    /\ Running
    /\ Len(objs) < MaxObjects
    /\ \E y \in NewYears, m \in NewMonths, d \in NewDays : Does(__init__(objs, y, m, d))

SetYear ==
    /\ Running
    /\ \E this \in 1..Len(objs), y \in SetterYears : Does(year_setter(objs, this, y))

SetMonth ==
    /\ Running
    /\ \E this \in 1..Len(objs), m \in SetterMonths : Does(month_setter(objs, this, m))

SetDay ==
    /\ Running
    /\ \E this \in 1..Len(objs), d \in SetterDays : Does(day_setter(objs, this, d))

Copy ==
    /\ Running
    /\ Len(objs) < MaxObjects
    /\ \E this \in 1..Len(objs) : Does(heap_copy(objs, this))

Add ==
    /\ Running
    /\ Len(objs) < MaxObjects
    /\ \E this \in 1..Len(objs), by \in ShiftArgs :
          Does(heap_add(objs, this, by[1], by[2], by[3]))

Subtract ==
    /\ Running
    /\ Len(objs) < MaxObjects
    /\ \E this \in 1..Len(objs), by \in ShiftArgs :
          Does(heap_subtract(objs, this, by[1], by[2], by[3]))

Difference ==
    /\ Running
    /\ \E this \in 1..Len(objs), o \in 1..Len(objs) : Does(heap_difference(objs, this, o))

AbsDifference ==
    /\ Running
    /\ \E this \in 1..Len(objs), o \in 1..Len(objs) : Does(heap_abs_difference(objs, this, o))

Next ==
    \/ New
    \/ SetYear
    \/ SetMonth
    \/ SetDay
    \/ Copy
    \/ Add
    \/ Subtract
    \/ Difference
    \/ AbsDifference

Spec == Init /\ [][Next]_vars

----------------------------------------------------------------------------
(* SpecCompare: the comparison operators.  self and other are drawn among    *)
(* the first, middle and last days of the months of a few years; one call    *)
(* evaluates the five operators on the pair.                                 *)

MaxCompareYears == 2

CompareDates ==
    {d \in RefDatesOfYears(2019..(2019 + MaxCompareYears - 1)) :
        d.day \in {1, 15, 28, 29, 30, 31}}

NoCompare ==
    [op |-> "none", lt |-> FALSE, eq |-> FALSE, gt |-> FALSE, le |-> FALSE, ge |-> FALSE]

InitCompare ==
    /\ objs = <<>>
    /\ call = NoCall
    /\ self \in CompareDates
    /\ other \in CompareDates
    /\ n = 0
    /\ ret = NoCompare

\* self < other, self == other, self > other, self <= other, self >= other
Compare ==
    /\ ret = NoCompare
    /\ ret' = [op |-> "compare",
               lt |-> __lt__(self, other),
               eq |-> __eq__(self, other),
               gt |-> __gt__(self, other),
               le |-> __le__(self, other),
               ge |-> __ge__(self, other)]
    /\ UNCHANGED <<objs, call, self, other, n>>

NextCompare == Compare

SpecCompare == InitCompare /\ [][NextCompare]_vars

----------------------------------------------------------------------------
(* SpecDayCounts: the two day counts of a date within its year.  self is     *)
(* drawn among all dates of the first years and of a few later ones; one     *)
(* call reads both properties.                                               *)

MaxDayCountYears == 8

DayCountYears == (1..MaxDayCountYears) \cup {1900, 2000, 2019, 2020}

NoDayCounts == [op |-> "none", since |-> [exc |-> "pending", val |-> 0], till |-> 0]

InitDayCounts ==
    /\ objs = <<>>
    /\ call = NoCall
    /\ self \in RefDatesOfYears(DayCountYears)
    /\ other = NoDate
    /\ n = 0
    /\ ret = NoDayCounts

\* self.days_since_start_of_year, self.days_till_end_of_year
ReadDayCounts ==
    /\ ret = NoDayCounts
    /\ ret' = [op |-> "day_counts",
               since |-> days_since_start_of_year(self),
               till |-> days_till_end_of_year(self)]
    /\ UNCHANGED <<objs, call, self, other, n>>

NextDayCounts == ReadDayCounts

SpecDayCounts == InitDayCounts /\ [][NextDayCounts]_vars

----------------------------------------------------------------------------
(* Properties *)

ValidDate(d) == RefValid(d.year, d.month, d.day)

IsFeb29(d) == d.month = 2 /\ d.day = 29

\* C1: every Date instance holds a valid calendar date at all times, also
\* after a setter call that failed with InvalidDateError.
C1_AlwaysValid == \A i \in 1..Len(objs) : ValidDate(objs[i])

\* C2: Date(y, m, d) returns the date (y, m, d) if and only if y > 0,
\* 1 <= m <= 12 and 1 <= d <= the length of month m in year y; in every other
\* case it raises InvalidDateError.
C2_ConstructIffValid ==
    ret # Pending =>
        /\ (ret.exc = "none") = ValidDate(self)
        /\ ret.exc \in {"none", "InvalidDateError"}
        /\ (ret.exc = "none" => ret.val = self)

C2_Witness == ret.exc = "InvalidDateError" /\ self = MkDate(2019, 2, 29)

\* C3: for dates of different years, a.difference(b) is the signed number of
\* one-day steps from b to a: n for the later date against the earlier one,
\* -n the other way round.
C3_DifferentYears ==
    other.year # self.year =>
        (ret.difference = Return(n) /\ ret.reverse = Return(-n))

C3_Witness ==
    /\ self = MkDate(2014, 8, 1)
    /\ other = MkDate(2018, 6, 11)
    /\ ret.reverse = Return(-1410)

\* C4: for dates of the same year, a.difference(b) is the signed number of
\* one-day steps from b to a, for every combination of months and days.
C4_SameYear ==
    other.year = self.year =>
        (ret.difference = Return(n) /\ ret.reverse = Return(-n))

\* C5: a.difference(b) = -(b.difference(a)) for all valid dates, and
\* a.difference(a) = 0.
C5_Antisymmetric ==
    /\ ret.difference.exc = "none"
    /\ ret.reverse.exc = "none"
    /\ ret.difference.val = -(ret.reverse.val)
    /\ (n = 0 => ret.difference.val = 0)

\* C6: d.add(days=n) returns the date n one-day steps after d, for every n >= 0.
C6_AddDays == ret.add = Return(other)

\* C7: day_of_week is the weekday found by counting the days from
\* Date(2000, 1, 1), a Saturday, modulo 7.
C7_DayOfWeek == ret = Return(RefWeekday(n))

C7_Witness ==
    /\ other = MkDate(1996, 3, 1)
    /\ n < 0
    /\ ret = Return("Friday")

\* C8: add(years=n) takes February 29 to February 29 of a leap target year
\* and to March 1 otherwise; subtract(years=n), the target year being >= 1,
\* takes it to February 29 or to February 28; every other date keeps its month
\* and day.
C8_YearShift ==
    /\ ret.op = "add_years" =>
          ret.out = Return(IF IsFeb29(self)
                           THEN (IF RefLeap(self.year + n)
                                 THEN MkDate(self.year + n, 2, 29)
                                 ELSE MkDate(self.year + n, 3, 1))
                           ELSE MkDate(self.year + n, self.month, self.day))
    /\ (ret.op = "subtract_years" /\ self.year - n >= 1) =>
          ret.out = Return(IF IsFeb29(self)
                           THEN (IF RefLeap(self.year - n)
                                 THEN MkDate(self.year - n, 2, 29)
                                 ELSE MkDate(self.year - n, 2, 28))
                           ELSE MkDate(self.year - n, self.month, self.day))

C8_Witness ==
    /\ self = MkDate(2000, 2, 29)
    /\ n = 1
    /\ ret.op = "subtract_years"
    /\ ret.out = Return(MkDate(1999, 2, 28))

\* C9: for a date with day <= 28, add(months=m) followed by subtract(months=m)
\* gives the date back, also across year boundaries.
C9_MonthsRoundTrip ==
    (ret.op = "add_subtract_months" /\ self.day <= 28) => ret.out = Return(self)

C9_Witness ==
    /\ self = MkDate(2020, 5, 10)
    /\ n = 20
    /\ ret.op = "add_subtract_months"
    /\ ret.mid = Return(MkDate(2022, 1, 10))
    /\ ret.out = Return(self)

\* C10: add, subtract, difference, abs_difference and copy leave every
\* existing instance as it was, whether they return or raise, and a Date they
\* return is a new instance; a setter changes its receiver only.
C10_ReceiverUnchanged ==
    [][/\ call'.op \in {"add", "subtract", "difference", "abs_difference", "copy"} =>
            /\ Len(objs') >= Len(objs)
            /\ \A i \in 1..Len(objs) : objs'[i] = objs[i]
            /\ call'.result # 0 =>
                  (call'.result \notin 1..Len(objs) /\ call'.result \in 1..Len(objs'))
       /\ call'.op \in {"year.setter", "month.setter", "day.setter"} =>
            /\ Len(objs') = Len(objs)
            /\ \A i \in (1..Len(objs)) \ {call'.this} : objs'[i] = objs[i]
      ]_vars

C10_Witness ==
    /\ call.op = "add"
    /\ call.exc = "none"
    /\ call.this = 1
    /\ call.result = 2
    /\ objs[2] # objs[1]

\* C11: self >= other holds exactly when each of year, month and day of self
\* is >= the same field of other, and self <= other exactly when each field is
\* <= ; so a date that is > another by its year is not >= it when its month or
\* day is smaller.
C11_NonStrictPerField ==
    ret.op = "compare" =>
        /\ ret.ge <=> (\A f \in {"year", "month", "day"} : self[f] >= other[f])
        /\ ret.le <=> (\A f \in {"year", "month", "day"} : self[f] <= other[f])

C11_Witness ==
    /\ ret.op = "compare"
    /\ self = MkDate(2020, 1, 1)
    /\ other = MkDate(2019, 12, 31)
    /\ ret.gt
    /\ ~ret.ge

\* C12: subtract(days=n) comes to an end for every date and every n >= 0: the
\* walk back over the months returns or raises, also when the days left to go
\* equal the length of the month visited.
C12_SubtractDaysTerminates == ret.subtract.exc # "NoReturn"

\* C13: a Date returned by subtract(days=n) is the date n one-day steps
\* before the receiver, also when n is the receiver's day and when the walk
\* crosses the February of a leap year or a year boundary.
C13_SubtractDays == ret.subtract.exc = "none" => ret.subtract.val = self

C13_Witness ==
    /\ self = MkDate(2015, 12, 30)
    /\ other = MkDate(2016, 3, 15)
    /\ n = 76
    /\ ret.subtract = Return(self)

\* C14: add(months=m) returns a valid Date for every date and every m >= 0:
\* its month lies m calendar months after the receiver's, the year carried
\* over every twelfth month, and its day is the day of the receiver shifted by
\* the whole years; subtract(months=m) does the same backwards whenever the
\* year it arrives in is >= 1.
C14_MonthShiftReturns ==
    LET months == self.year * 12 + (self.month - 1)
        target == IF ret.op = "add_months" THEN months + n ELSE months - n
    IN  (ret.op \in {"add_months", "subtract_months"} /\ target \div 12 >= 1) =>
            /\ ret.out.exc = "none"
            /\ ValidDate(ret.out.val)
            /\ ~IsFeb29(self) =>
                  ret.out.val = MkDate(target \div 12, (target % 12) + 1, self.day)

\* C15: of self < other, self == other, self > other exactly one holds, and
\* self < other holds exactly when self is the earlier date.
C15_StrictChronological ==
    ret.op = "compare" =>
        /\ (ret.lt /\ ~ret.eq /\ ~ret.gt)
             \/ (~ret.lt /\ ret.eq /\ ~ret.gt)
             \/ (~ret.lt /\ ~ret.eq /\ ret.gt)
        /\ ret.lt <=>
              \/ self.year < other.year
              \/ (self.year = other.year /\ self.month < other.month)
              \/ (self.year = other.year /\ self.month = other.month
                                         /\ self.day < other.day)

\* C16: days_since_start_of_year and days_till_end_of_year of a date add up
\* to the number of days of its year, 366 in a leap year and 365 otherwise;
\* the first is 1 on January 1 and the second is 0 on December 31.
C16_DayCountsAddUp ==
    ret.op = "day_counts" =>
        /\ ret.since.exc = "none"
        /\ ret.since.val + ret.till = RefDaysInYear(self.year)
        /\ (self.month = 1 /\ self.day = 1) => ret.since.val = 1
        /\ (self.month = 12 /\ self.day = 31) => ret.till = 0

C16_Witness ==
    /\ ret.op = "day_counts"
    /\ self = MkDate(2020, 2, 29)
    /\ ret.since = Return(60)
    /\ ret.till = 306

============================================================================
